---- MODULE Spec2Model ----
(***************************************************************************)
(* Model of pyke.py: the swap / compile / restore workflow of class pyke.  *)
(*                                                                         *)
(* The file system is modelled by what is stored at the path of every      *)
(* discovered AssemblyInfo.cs file (fileAt) and at its                     *)
(* "<path>.build-temp" backup path (backupAt), plus the state of the build *)
(* output directory.  build() is followed statement by statement through   *)
(* the program counter pc; idx is the position of the for loops of         *)
(* generateAssemblyInfoFiles and restoreOriginalAssemblyInfoFiles.         *)
(*                                                                         *)
(* The interpreter is Python 2 (print statements): os.rename and os.remove *)
(* raise OSError, which "except IOError" does not catch.                   *)
(***************************************************************************)
EXTENDS Integers, Sequences, FiniteSets, TLC

\* Bounds of the model
MaxFiles == 2
MaxBuilds == 2

\* Paths at which an AssemblyInfo.cs file may be found under basedir
Paths == 1..MaxFiles

\* What a path holds: nothing, the original file, a file opened for
\* writing and left empty, or the generated content
Contents == {"none", "orig", "empty", "gen"}

\* The values a caller can pass as projectFile
ProjectFiles == {"None", "empty", "direct", "nested", "missing"}

\* The outcomes of subprocess.call([self.msbuild, ...])
CompileOutcomes == {"exit0", "exit1", "exit2", "launchfail"}

\* Failures of the environment (permission denied, file locked) that a
\* file operation of the staging loop or of the restore loop can hit
StageFaults == {"none", "rename", "open"}
RestoreFaults == {"none", "remove", "rename"}

\* The keyword arguments of the constructor: each one left out (None) or
\* given by the caller
ConstructorArgs ==
    {[basedir |-> a, msbuild |-> a, outputDir |-> a, nuget |-> a] :
        a \in {"None", "given"}}

\* __init__, lines 167-185: the paths resolved from the arguments
ResolveSettings(args) ==
    [basedir |-> IF args.basedir = "None" THEN "abspath(curdir)"
                                          ELSE "abspath(basedir)",
     msbuild |-> IF args.msbuild = "None"
                 THEN "WINDIR/Microsoft.NET/Framework64/v4.0.30319/msbuild.exe"
                 ELSE "msbuild",
     buildOutputDir |-> IF args.outputDir = "None"
                        THEN IF args.basedir = "None"
                             THEN "abspath(curdir)/BuildOutput"
                             ELSE "abspath(basedir)/BuildOutput"
                        ELSE "outputDir",
     nuget |-> IF args.nuget = "None" THEN "C:/nuget/nuget.exe" ELSE "nuget"]

\* File names, as sequences of name parts.  Besides the name looked for:
\* two names that only start with it, the name in another letter case,
\* and a name with another character in the place of the dot
NameExact == <<"AssemblyInfo", ".", "cs">>
NameBak == <<"AssemblyInfo", ".", "cs", ".", "bak">>
NameBuildTemp == <<"AssemblyInfo", ".", "cs", ".", "build-temp">>
NameLowerCase == <<"assemblyinfo", ".", "cs">>
NameNoDot == <<"AssemblyInfo", "x", "cs">>
FileNames == {NameExact, NameBak, NameBuildTemp, NameLowerCase, NameNoDot}

\* str.lower() on a name part
Lower(part) == IF part = "AssemblyInfo" THEN "assemblyinfo" ELSE part

\* os.path.normcase: lower case on Windows, the identity on POSIX
normcase(os, name) ==
    IF os = "nt" THEN [i \in DOMAIN name |-> Lower(name[i])] ELSE name

\* The regular expression fnmatch.translate builds, matched against a whole
\* name: "*" matches any run of parts, every other part matches itself
\* (the dot is escaped); the expression is anchored at the end
RECURSIVE Match(_, _)
Match(pat, name) ==
    IF pat = << >> THEN name = << >>
    ELSE IF Head(pat) = "*"
    THEN Match(Tail(pat), name)
         \/ (name # << >> /\ Match(pat, Tail(name)))
    ELSE /\ name # << >>
         /\ Head(pat) = Head(name)
         /\ Match(Tail(pat), Tail(name))

\* A filter that keeps every name starting with the pattern
fnmatchFilter_Prefix(os, names, pat) ==
    {n \in names :
        /\ Len(n) >= Len(pat)
        /\ SubSeq(normcase(os, n), 1, Len(pat)) = normcase(os, pat)}

\* fnmatch.filter(names, pat): the pattern is normcased, and so is every
\* name unless os.path is posixpath
fnmatchFilter(os, names, pat) ==
    {n \in names : Match(normcase(os, pat), normcase(os, n))}

\* getAssemblyInfoFiles, lines 494-500: os.walk visits every directory
\* below basedir; t[d] is the set of file names in directory d.  The
\* result as a set of <<directory, name>> (the order is that of os.walk)
getAssemblyInfoFiles(os, t) ==
    UNION {{<<d, n>> : n \in fnmatchFilter(os, t[d], NameExact)} :
              d \in DOMAIN t}

\* The directories of a set of found files, in os.walk order
DirSeq(found) ==
    LET dirs == {f[1] : f \in found}
    IN  CHOOSE q \in [1..Cardinality(dirs) -> dirs] :
            \A i, j \in 1..Cardinality(dirs) : i < j => q[i] < q[j]

VARIABLES
    tree,               \* per directory below basedir: its file names
    found,              \* what getAssemblyInfoFiles returned
    settings,           \* self.basedir, .msbuild, .buildOutputDir, .nuget
    assemblyInfoFiles,  \* self.assemblyInfoFiles: the discovered paths
    inOutputDir,        \* the discovered paths that lie below buildOutputDir
    platform,           \* "nt" or "posix": os.rename onto an existing file
    fileAt,             \* content at each AssemblyInfo.cs path
    backupAt,           \* content at each AssemblyInfo.cs.build-temp path
    buildOutputDir,     \* "absent", "empty" or "nonempty"
    descriptor,         \* the caller-owned assemblyInfo dictionary
    assemblyInfo,       \* self.assemblyInfo
    pc,                 \* position inside build()
    idx,                \* loop position in assemblyInfoFiles
    projectFile,        \* the projectFile argument of the running build()
    compileOutput,      \* outcome of the compiler invocation of this build
    outcome,            \* how the last build() ended
    error,              \* the exception the last build() raised
    builds,             \* number of build() calls so far
    faulted,            \* an environment failure has been hit so far
    stagingCompleted,   \* generateAssemblyInfoFiles returned in this build
    stageFailedAt,      \* loop position at which staging raised, or 0
    stageCount,         \* per path: times staged in this build
    restoreCount,       \* per path: times the restore step acted on it
    restoreCalls,       \* calls of restoreOriginalAssemblyInfoFiles
    attempted,          \* paths the running/last restore call acted on
    restoreFailed,      \* a restore call raised in this build
    compilerCalls,      \* compiler invocations in this build
    startFileAt         \* fileAt as it was when this build() was called

vars == <<tree, found, settings, assemblyInfoFiles, inOutputDir, platform, fileAt, backupAt,
          buildOutputDir, descriptor, assemblyInfo, pc, idx, projectFile,
          compileOutput, outcome, error, builds, faulted, stagingCompleted,
          stageFailedAt, stageCount, restoreCount, restoreCalls, attempted,
          restoreFailed, compilerCalls, startFileAt>>

\* Variables no step of build() assigns
config == <<tree, found, settings, assemblyInfoFiles, inOutputDir, platform>>

\* The paths in self.assemblyInfoFiles
Discovered == {assemblyInfoFiles[i] : i \in 1..Len(assemblyInfoFiles)}

\* The dictionary build() creates when assemblyInfo is None: all ten keys,
\* Title "" (no annotation yet)
DefaultAssemblyInfo == [hasTitle |-> TRUE, hasOthers |-> TRUE, titleAnn |-> 0]

\* self.assemblyInfo["Title"] = "%s (compilation: %s, built by: %s)" % ...
AnnotateTitle(d) == [d EXCEPT !.titleAnn = @ + 1]

\* __init__: the tree is walked once; every discovered path holds its
\* original file and no backup
Init ==
    /\ \E args \in ConstructorArgs : settings = ResolveSettings(args)
    /\ platform \in {"nt", "posix"}
    /\ \E n \in 0..MaxFiles :
         tree = [d \in Paths |-> IF d <= n THEN {NameExact} ELSE {}]
    /\ found = getAssemblyInfoFiles(platform, tree)
    /\ assemblyInfoFiles = DirSeq(found)
    /\ inOutputDir \in SUBSET Discovered
    /\ fileAt = [p \in Paths |-> IF p \in Discovered THEN "orig" ELSE "none"]
    /\ backupAt = [p \in Paths |-> "none"]
    /\ buildOutputDir \in {"absent", "empty", "nonempty"}
    /\ (inOutputDir # {} => buildOutputDir = "nonempty")
    /\ descriptor \in [hasTitle : BOOLEAN, hasOthers : BOOLEAN, titleAnn : {0}]
    /\ assemblyInfo = DefaultAssemblyInfo
    /\ pc = "idle"
    /\ idx = 0
    /\ projectFile = "None"
    /\ compileOutput = "notrun"
    /\ outcome = "none"
    /\ error = "none"
    /\ builds = 0
    /\ faulted = FALSE
    /\ stagingCompleted = FALSE
    /\ stageFailedAt = 0
    /\ stageCount = [p \in Paths |-> 0]
    /\ restoreCount = [p \in Paths |-> 0]
    /\ restoreCalls = 0
    /\ attempted = {}
    /\ restoreFailed = FALSE
    /\ compilerCalls = 0
    /\ startFileAt = fileAt

\* An exception leaves build(): the call ends, nothing else runs
Raise(e) ==
    /\ pc' = "idle"
    /\ outcome' = "raised"
    /\ error' = e

\* build(), lines 196-222: argument check, choice of the dictionary,
\* annotation of Title, then entry into generateAssemblyInfoFiles
build(pf, supplied) ==
    /\ pc = "idle"
    /\ builds < MaxBuilds
    /\ builds' = builds + 1
    /\ projectFile' = pf
    /\ compileOutput' = "notrun"
    /\ stagingCompleted' = FALSE
    /\ stageFailedAt' = 0
    /\ stageCount' = [p \in Paths |-> 0]
    /\ restoreCount' = [p \in Paths |-> 0]
    /\ restoreCalls' = 0
    /\ attempted' = {}
    /\ restoreFailed' = FALSE
    /\ compilerCalls' = 0
    /\ startFileAt' = fileAt
    /\ idx' = 1
    /\ LET chosen == IF supplied THEN descriptor ELSE DefaultAssemblyInfo
       IN  IF pf = "None"
           THEN /\ Raise("NoProjectSpecified")
                /\ UNCHANGED <<assemblyInfo, descriptor>>
           ELSE IF ~chosen.hasTitle
           THEN /\ Raise("KeyError")
                /\ assemblyInfo' = chosen
                /\ UNCHANGED descriptor
           ELSE /\ assemblyInfo' = AnnotateTitle(chosen)
                /\ descriptor' = IF supplied THEN AnnotateTitle(chosen)
                                             ELSE descriptor
                /\ pc' = "generate"
                /\ outcome' = "none"
                /\ error' = "none"
    /\ UNCHANGED <<config, fileAt, backupAt, buildOutputDir, faulted>>

\* One pass of the loop body of generateAssemblyInfoFiles on path p:
\* the content at p and at its backup afterwards, and the exception raised
StageFile(p, fault) ==
    IF fault = "rename" \/ fileAt[p] = "none"
       \/ (backupAt[p] # "none" /\ platform = "nt")
    THEN [file |-> fileAt[p], backup |-> backupAt[p], err |-> "OSError"]
    ELSE IF fault = "open"
    THEN [file |-> "none", backup |-> fileAt[p], err |-> "GenerateError"]
    ELSE IF ~assemblyInfo.hasOthers
    THEN [file |-> "empty", backup |-> fileAt[p], err |-> "KeyError"]
    ELSE [file |-> "gen", backup |-> fileAt[p], err |-> "none"]

\* generateAssemblyInfoFiles, lines 373-383: one iteration of the loop
generateAssemblyInfoFiles ==
    /\ pc = "generate"
    /\ idx <= Len(assemblyInfoFiles)
    /\ \E fault \in StageFaults :
         LET p == assemblyInfoFiles[idx]
             r == StageFile(p, fault)
         IN  /\ fileAt' = [fileAt EXCEPT ![p] = r.file]
             /\ backupAt' = [backupAt EXCEPT ![p] = r.backup]
             /\ faulted' = (faulted \/ fault # "none")
             /\ IF r.err = "none"
                THEN /\ stageCount' = [stageCount EXCEPT ![p] = @ + 1]
                     /\ idx' = idx + 1
                     /\ UNCHANGED <<pc, outcome, error, stageFailedAt>>
                ELSE /\ Raise(r.err)
                     /\ stageFailedAt' = idx
                     /\ UNCHANGED <<stageCount, idx>>
    /\ UNCHANGED <<config, startFileAt, buildOutputDir, descriptor, assemblyInfo,
                   projectFile, compileOutput, builds, stagingCompleted,
                   restoreCount, restoreCalls, attempted, restoreFailed,
                   compilerCalls>>

\* generateAssemblyInfoFiles returns; build() calls compileProject (line 225)
generateReturn ==
    /\ pc = "generate"
    /\ idx > Len(assemblyInfoFiles)
    /\ pc' = "resolve"
    /\ stagingCompleted' = TRUE
    /\ UNCHANGED <<config, startFileAt, fileAt, backupAt, buildOutputDir, descriptor,
                   assemblyInfo, idx, projectFile, compileOutput, outcome,
                   error, builds, faulted, stageFailedAt, stageCount,
                   restoreCount, restoreCalls, attempted, restoreFailed,
                   compilerCalls>>

\* getProjectFilePath and lines 250-256: TRUE when a path is resolved.
\* "" joins to basedir itself, which exists; a name found nowhere makes
\* getProjectFilePath return None and os.path.exists(None) raise
ProjectResolves(pf) == pf \in {"empty", "direct", "nested"}

\* compileProject, lines 247-256
resolveProjectFile ==
    /\ pc = "resolve"
    /\ IF ProjectResolves(projectFile)
       THEN /\ pc' = "prepare"
            /\ UNCHANGED <<outcome, error>>
       ELSE Raise("TypeError")
    /\ UNCHANGED <<config, startFileAt, fileAt, backupAt, buildOutputDir, descriptor,
                   assemblyInfo, idx, projectFile, compileOutput, builds,
                   faulted, stagingCompleted, stageFailedAt, stageCount,
                   restoreCount, restoreCalls, attempted, restoreFailed,
                   compilerCalls>>

\* cleanDir that removes nothing below the directory
cleanDir_KeepsFiles(f) == f

\* cleanDir(target) on the build output directory: every file and folder
\* below it is removed, the discovered files and backups in it included
cleanDir(f) == [p \in Paths |-> IF p \in inOutputDir THEN "none" ELSE f[p]]

\* compileProject, lines 262-265: makedirs or cleanDir
prepareOutputDir ==
    /\ pc = "prepare"
    /\ buildOutputDir' = "empty"
    /\ IF buildOutputDir = "absent"
       THEN UNCHANGED <<fileAt, backupAt>>
       ELSE /\ fileAt' = cleanDir(fileAt)
            /\ backupAt' = cleanDir(backupAt)
    /\ pc' = "invoke"
    /\ UNCHANGED <<config, startFileAt, descriptor, assemblyInfo, idx, projectFile,
                   compileOutput, outcome, error, builds, faulted,
                   stagingCompleted, stageFailedAt, stageCount, restoreCount,
                   restoreCalls, attempted, restoreFailed, compilerCalls>>

\* AfterCompile that invokes the compiler again after a failed compile
AfterCompile_Retry(r) ==
    IF r \in {"exit1", "exit2"} THEN "invoke" ELSE "restoreInBuild"

\* compileProject, lines 271-275, then build(), line 226: where control
\* goes after the compiler exited with status r.  Status 1 calls restore
\* inside compileProject; every status returns to build(), which restores
AfterCompile(r) ==
    IF r = "exit1" THEN "restoreInCompile" ELSE "restoreInBuild"

\* compileProject, lines 269-275: subprocess.call and the status test
invokeCompiler ==
    /\ pc = "invoke"
    /\ \E r \in CompileOutcomes :
         /\ compileOutput' = r
         /\ buildOutputDir' = IF r = "exit0" THEN "nonempty" ELSE buildOutputDir
         /\ IF r = "launchfail"
            THEN /\ Raise("OSError")
                 /\ UNCHANGED <<idx, restoreCalls, attempted>>
            ELSE /\ pc' = AfterCompile(r)
                 /\ idx' = 1
                 /\ restoreCalls' = restoreCalls + 1
                 /\ attempted' = {}
                 /\ UNCHANGED <<outcome, error>>
    /\ compilerCalls' = compilerCalls + 1
    /\ UNCHANGED <<config, startFileAt, fileAt, backupAt, descriptor, assemblyInfo,
                   projectFile, builds, faulted, stagingCompleted,
                   stageFailedAt, stageCount, restoreCount, restoreFailed>>

\* RestoreFile with the rename of line 582 lost: the backup is removed and
\* the generated file stays at the original path
RestoreFile_DropsBackup(p, fault) ==
    IF fault = "remove" \/ fileAt[p] = "none"
    THEN [file |-> fileAt[p], backup |-> backupAt[p], err |-> "OSError"]
    ELSE IF fault = "rename" \/ backupAt[p] = "none"
    THEN [file |-> "none", backup |-> backupAt[p], err |-> "OSError"]
    ELSE [file |-> fileAt[p], backup |-> "none", err |-> "none"]

\* One pass of the loop body of restoreOriginalAssemblyInfoFiles on path p
RestoreFile(p, fault) ==
    IF fault = "remove" \/ fileAt[p] = "none"
    THEN [file |-> fileAt[p], backup |-> backupAt[p], err |-> "OSError"]
    ELSE IF fault = "rename" \/ backupAt[p] = "none"
    THEN [file |-> "none", backup |-> backupAt[p], err |-> "OSError"]
    ELSE [file |-> backupAt[p], backup |-> "none", err |-> "none"]

\* restoreOriginalAssemblyInfoFiles, lines 579-584: one iteration
restoreOriginalAssemblyInfoFiles ==
    /\ pc \in {"restoreInCompile", "restoreInBuild"}
    /\ idx <= Len(assemblyInfoFiles)
    /\ \E fault \in RestoreFaults :
         LET p == assemblyInfoFiles[idx]
             r == RestoreFile(p, fault)
         IN  /\ fileAt' = [fileAt EXCEPT ![p] = r.file]
             /\ backupAt' = [backupAt EXCEPT ![p] = r.backup]
             /\ faulted' = (faulted \/ fault # "none")
             /\ restoreCount' = [restoreCount EXCEPT ![p] = @ + 1]
             /\ attempted' = attempted \cup {p}
             /\ IF r.err = "none"
                THEN /\ idx' = idx + 1
                     /\ UNCHANGED <<pc, outcome, error, restoreFailed>>
                ELSE /\ Raise(r.err)
                     /\ restoreFailed' = TRUE
                     /\ UNCHANGED idx
    /\ UNCHANGED <<config, startFileAt, buildOutputDir, descriptor, assemblyInfo,
                   projectFile, compileOutput, builds, stagingCompleted,
                   stageFailedAt, stageCount, restoreCalls, compilerCalls>>

\* restoreReturn that empties self.assemblyInfoFiles when the restore
\* call made by build() is done
restoreReturn_ClearsFiles ==
    /\ pc \in {"restoreInCompile", "restoreInBuild"}
    /\ idx > Len(assemblyInfoFiles)
    /\ IF pc = "restoreInCompile"
       THEN /\ pc' = "restoreInBuild"
            /\ idx' = 1
            /\ restoreCalls' = restoreCalls + 1
            /\ attempted' = {}
            /\ UNCHANGED <<outcome, error, assemblyInfoFiles>>
       ELSE /\ pc' = "idle"
            /\ outcome' = "returned"
            /\ error' = "none"
            /\ assemblyInfoFiles' = << >>
            /\ UNCHANGED <<idx, restoreCalls, attempted>>
    /\ UNCHANGED <<tree, found, settings, inOutputDir, platform, startFileAt,
                   fileAt,
                   backupAt, buildOutputDir, descriptor, assemblyInfo,
                   projectFile, compileOutput, builds, faulted,
                   stagingCompleted, stageFailedAt, stageCount, restoreCount,
                   restoreFailed, compilerCalls>>

\* The restore loop is exhausted.  The call made by compileProject
\* (line 273) returns into build(), which calls restore again (line 226);
\* the call made by build() ends build()
restoreReturn ==
    /\ pc \in {"restoreInCompile", "restoreInBuild"}
    /\ idx > Len(assemblyInfoFiles)
    /\ IF pc = "restoreInCompile"
       THEN /\ pc' = "restoreInBuild"
            /\ idx' = 1
            /\ restoreCalls' = restoreCalls + 1
            /\ attempted' = {}
            /\ UNCHANGED <<outcome, error>>
       ELSE /\ pc' = "idle"
            /\ outcome' = "returned"
            /\ error' = "none"
            /\ UNCHANGED <<idx, restoreCalls, attempted>>
    /\ UNCHANGED <<config, startFileAt, fileAt, backupAt, buildOutputDir, descriptor,
                   assemblyInfo, projectFile, compileOutput, builds, faulted,
                   stagingCompleted, stageFailedAt, stageCount, restoreCount,
                   restoreFailed, compilerCalls>>

\* What the exception that ended build() tells the caller.  build() has
\* no handler and Python 2 chains no exceptions: the exception is the one
\* of the statement that raised.  A restore that raises (lines 581-582)
\* propagates its own OSError; the compiler status is a local variable of
\* compileProject, printed at line 275 at most, and is part of no exception
Reported ==
    IF outcome # "raised" THEN {}
    ELSE IF restoreFailed THEN {"restore"}
    ELSE IF compileOutput = "launchfail" THEN {"compile"}
    ELSE IF stageFailedAt > 0 THEN {"stage"}
    ELSE {"request"}

Next ==
    \/ \E pf \in ProjectFiles, supplied \in BOOLEAN : build(pf, supplied)
    \/ generateAssemblyInfoFiles
    \/ generateReturn
    \/ resolveProjectFile
    \/ prepareOutputDir
    \/ invokeCompiler
    \/ restoreOriginalAssemblyInfoFiles
    \/ restoreReturn

Spec == Init /\ [][Next]_vars

\* A file exists at the path AssemblyInfo.cs of directory d: the name is
\* there, on Windows in any letter case
HasAssemblyInfo(os, t, d) ==
    NameExact \in t[d] \/ (os = "nt" /\ NameLowerCase \in t[d])

\* Before the constructor runs: any tree of directories, each holding any
\* of the file names (on Windows no two names that differ in case only)
InitDiscovery ==
    /\ platform \in {"nt", "posix"}
    /\ tree \in [Paths -> SUBSET FileNames]
    /\ platform = "nt"
         => \A d \in Paths : ~(NameExact \in tree[d] /\ NameLowerCase \in tree[d])
    /\ found = {}
    /\ settings = ResolveSettings([basedir |-> "None", msbuild |-> "None",
                                   outputDir |-> "None", nuget |-> "None"])
    /\ assemblyInfoFiles = << >>
    /\ inOutputDir = {}
    /\ fileAt = [d \in Paths |->
                    IF HasAssemblyInfo(platform, tree, d) THEN "orig" ELSE "none"]
    /\ backupAt = [d \in Paths |-> "none"]
    /\ buildOutputDir = "absent"
    /\ descriptor = DefaultAssemblyInfo
    /\ assemblyInfo = DefaultAssemblyInfo
    /\ pc = "new"
    /\ idx = 0
    /\ projectFile = "None"
    /\ compileOutput = "notrun"
    /\ outcome = "none"
    /\ error = "none"
    /\ builds = 0
    /\ faulted = FALSE
    /\ stagingCompleted = FALSE
    /\ stageFailedAt = 0
    /\ stageCount = [p \in Paths |-> 0]
    /\ restoreCount = [p \in Paths |-> 0]
    /\ restoreCalls = 0
    /\ attempted = {}
    /\ restoreFailed = FALSE
    /\ compilerCalls = 0
    /\ startFileAt = fileAt

\* __init__, line 187: self.assemblyInfoFiles = self.getAssemblyInfoFiles()
construct ==
    /\ pc = "new"
    /\ pc' = "idle"
    /\ found' = getAssemblyInfoFiles(platform, tree)
    /\ assemblyInfoFiles' = DirSeq(getAssemblyInfoFiles(platform, tree))
    /\ UNCHANGED <<tree, settings, inOutputDir, platform, fileAt, backupAt,
                   buildOutputDir, descriptor, assemblyInfo, idx, projectFile,
                   compileOutput, outcome, error, builds, faulted,
                   stagingCompleted, stageFailedAt, stageCount, restoreCount,
                   restoreCalls, attempted, restoreFailed, compilerCalls,
                   startFileAt>>

NextDiscovery == construct

\* The constructor alone, on every tree
SpecDiscovery == InitDiscovery /\ [][NextDiscovery]_vars

TypeOK ==
    /\ fileAt \in [Paths -> Contents]
    /\ backupAt \in [Paths -> Contents]
    /\ pc \in {"new", "idle", "generate", "resolve", "prepare", "invoke",
               "restoreInCompile", "restoreInBuild"}
    /\ outcome \in {"none", "returned", "raised"}
    /\ builds \in 0..MaxBuilds

----------------------------------------------------------------------------
\* Properties of the swap / compile / restore contract.  Unless a property
\* is about a failing file operation, it is stated for benign runs: the
\* environment made no file operation fail, and no discovered file lies
\* below the build output directory (where cleanDir would remove it).

\* No environment failure so far, no discovered file below buildOutputDir
Benign == ~faulted /\ inOutputDir = {}

\* A build() call has ended, by returning or by raising
Ended == pc = "idle" /\ outcome # "none"

\* Every discovered file is at its original path with its original
\* content and has no backup
Pristine ==
    \A p \in Discovered : fileAt[p] = "orig" /\ backupAt[p] = "none"

\* C1: when staging completed and the compile step had any outcome (exit
\* status 0, 1, another status, or a failed launch), the restore step has
\* acted on every discovered file by the time build() ends, and no
\* discovered path still holds generated content.
C1_RestoreAfterEveryCompileOutcome ==
    (Ended /\ Benign /\ stagingCompleted
           /\ compileOutput \in CompileOutcomes)
        => \A p \in Discovered :
              restoreCount[p] >= 1 /\ fileAt[p] \notin {"gen", "empty"}

\* C2: when the compiler exited with status 1, after build() has ended
\* every discovered file is at its original path with its original content.
C2_OriginalsBackAfterExit1 ==
    (Ended /\ Benign /\ compileOutput = "exit1")
        => \A p \in Discovered : fileAt[p] = "orig"

\* C3: whenever no build() is in progress, exactly one of the original
\* path and the backup path of each discovered file holds a file.
C3_ExactlyOneOfFileAndBackup ==
    (pc = "idle" /\ Benign)
        => \A p \in Discovered :
              (fileAt[p] # "none") # (backupAt[p] # "none")

\* C4: after a build() that has ended, returned or raised, in which no
\* restore call raised, no backup file remains.
C4_NoBackupAfterBuild ==
    (Ended /\ Benign /\ ~restoreFailed)
        => \A p \in Discovered : backupAt[p] = "none"

\* C5: the annotation is appended to Title at most once, over any number
\* of build() calls with the same caller-owned dictionary.
C5_TitleAnnotatedOnce ==
    descriptor.titleAnn <= 1 /\ assemblyInfo.titleAnn <= 1

\* C6: build() ends in a failure for every nonzero exit status of the
\* compiler and returns normally only for exit status 0.
C6_NonzeroExitFails ==
    (Ended /\ Benign /\ compileOutput \in {"exit0", "exit1", "exit2"})
        => /\ compileOutput # "exit0" => outcome = "raised"
           /\ outcome = "returned" => compileOutput = "exit0"

\* C7: within one build() each discovered file is staged at most once and
\* the restore step acts on it at most once.
C7_StagedAndRestoredOnce ==
    Benign
        => \A p \in Discovered : stageCount[p] <= 1 /\ restoreCount[p] <= 1

\* C8: when staging raised at the k-th file, the files staged before it
\* are back at their original path with original content when build() ends.
C8_PartialStagingRolledBack ==
    (Ended /\ stageFailedAt > 0)
        => \A j \in 1..(stageFailedAt - 1) :
              /\ fileAt[assemblyInfoFiles[j]] = "orig"
              /\ backupAt[assemblyInfoFiles[j]] = "none"

\* C9: when the project file is found neither under basedir nor by the
\* search, build() raises and the tree is in its pre-build state.
C9_ProjectNotFoundLeavesTreePristine ==
    (Ended /\ Benign /\ stagingCompleted /\ projectFile = "missing")
        => outcome = "raised" /\ Pristine

\* C10: a restore call in which one file fails has still acted on every
\* discovered file when it reports the failure.
C10_RestoreSweepsAllFiles ==
    (Ended /\ restoreFailed) => attempted = Discovered

\* C11: round trip.  A staging that completed followed by one restore call,
\* with no failing file operation and nothing else touching the files in
\* between, leaves every discovered path with the content it had before
\* staging and leaves no backup; the list may be empty.
C11_StageRestoreRoundTrip ==
    (Ended /\ Benign /\ stagingCompleted /\ ~restoreFailed
           /\ compileOutput \in {"exit0", "exit2"})
        => \A p \in Discovered :
              fileAt[p] = startFileAt[p] /\ backupAt[p] = "none"

\* C11 witness: a build staged and restored two files, once each, and
\* both hold their original content again
C11_RoundTripDone ==
    /\ Ended /\ Benign /\ stagingCompleted /\ ~restoreFailed
    /\ compileOutput = "exit0"
    /\ Len(assemblyInfoFiles) >= 2
    /\ \A p \in Discovered :
          stageCount[p] = 1 /\ restoreCount[p] = 1 /\ fileAt[p] = "orig"

\* The build output directory exists and nothing is below it
OutputDirEmpty ==
    /\ buildOutputDir = "empty"
    /\ \A p \in inOutputDir : fileAt[p] = "none" /\ backupAt[p] = "none"

\* C12: at the moment the compiler is invoked the build output directory
\* exists and is empty, whatever it held before the build.
C12_OutputDirEmptyAtInvoke == pc = "invoke" => OutputDirEmpty

\* C12 witness: the compiler is about to be invoked in a build whose output
\* directory held discovered files, which staging had given backups
C12_InvokeAfterCleaning ==
    /\ pc = "invoke"
    /\ inOutputDir # {}
    /\ \A p \in inOutputDir : stageCount[p] = 1

\* C13: a build() called with projectFile None or "" raises the
\* missing-project error before any metadata file is renamed, created or
\* deleted and before the compiler is invoked.  (Stated for dictionaries
\* that hold every template key.)
C13_MissingProjectFileRejected ==
    (builds >= 1 /\ projectFile \in {"None", "empty"}
                 /\ assemblyInfo.hasTitle /\ assemblyInfo.hasOthers)
        => /\ pc = "idle"
                => (outcome = "raised" /\ error = "NoProjectSpecified")
           /\ fileAt = startFileAt
           /\ \A p \in Paths : stageCount[p] = 0 /\ restoreCount[p] = 0
           /\ compilerCalls = 0

\* C15: when the dictionary used by build() lacks a template key, build()
\* ends with the missing-key error, every discovered file has its original
\* content at its original path and no backup exists.
C15_MissingFieldLeavesTreePristine ==
    (Ended /\ Benign /\ projectFile \in {"direct", "nested"}
           /\ (~assemblyInfo.hasTitle \/ ~assemblyInfo.hasOthers))
        => outcome = "raised" /\ error = "KeyError" /\ Pristine

\* C16: between the end of staging and the start of restoration (project
\* file resolution, output directory preparation, compiler invocation) no
\* discovered file and no backup is created, deleted or renamed.
C16_NoMutationBetweenStageAndRestore ==
    [][(pc \in {"resolve", "prepare", "invoke"}
           /\ projectFile \in {"direct", "nested"})
           => (fileAt' = fileAt /\ backupAt' = backupAt)]_vars

\* C17: the compiler is invoked only when every discovered file is staged
\* (backup present, generated content at the original path), and the
\* restore step acts on a file only after the compiler process has exited.
C17_StageThenCompileThenRestore ==
    /\ (pc = "invoke" /\ projectFile \in {"direct", "nested"})
         => \A p \in Discovered :
               /\ stageCount[p] = 1
               /\ fileAt[p] = "gen"
               /\ backupAt[p] # "none"
               /\ restoreCount[p] = 0
    /\ (pc \in {"restoreInCompile", "restoreInBuild"}
           \/ \E p \in Discovered : restoreCount[p] > 0)
         => compileOutput \in {"exit0", "exit1", "exit2"}

\* C18: when the compile step failed and the restore that followed failed
\* too, what build() reports to its caller carries both failures.
C18_BothFailuresReported ==
    (Ended /\ inOutputDir = {} /\ restoreFailed
           /\ compileOutput \in {"exit1", "exit2"})
        => {"compile", "restore"} \subseteq Reported

\* C19: within one build() the compiler is invoked at most once, whatever
\* its exit status, and an error ends the call: no step runs after it.
C19_NoRetry ==
    /\ compilerCalls <= 1
    /\ outcome = "raised" => pc = "idle"

\* C19 witness: a build ended in an error after the compiler, invoked
\* once, had exited with status 1
C19_FailedCompileNotRetried ==
    Ended /\ outcome = "raised" /\ compileOutput = "exit1" /\ compilerCalls = 1

\* C20: the paths resolved by the constructor and the list of discovered
\* files are changed by no step of build(), on success and on failure.
C20_ConfigurationUnchanged ==
    [][settings' = settings /\ assemblyInfoFiles' = assemblyInfoFiles]_vars

\* C20 witness: a second build() on the instance has ended in an error
\* after staging, compiling and restoring discovered files
C20_BuildsDone ==
    /\ Ended /\ builds >= 2 /\ outcome = "raised"
    /\ compileOutput = "exit1"
    /\ Len(assemblyInfoFiles) >= 1

\* The constructor has run
Constructed == pc = "idle"

\* C14 as claimed: discovery returns exactly the files, in any directory,
\* whose name is exactly AssemblyInfo.cs.
C14_DiscoversExactNameOnly ==
    Constructed
        => found = {f \in Paths \X FileNames :
                        f[2] \in tree[f[1]] /\ f[2] = NameExact}

\* C14 as amended: discovery returns exactly the files, in any directory,
\* whose name is AssemblyInfo.cs, on Windows in any letter case; names that
\* only start with it are left out, and no match gives an empty result.
C14_DiscoversNameUpToPlatformCase ==
    Constructed
        => /\ \A d \in Paths, n \in FileNames :
                <<d, n>> \in found
                  <=> /\ n \in tree[d]
                      /\ n = NameExact
                         \/ (platform = "nt" /\ n = NameLowerCase)
           /\ Len(assemblyInfoFiles) = Cardinality(found)

\* C14 witness: the name was in two directories, next to names that only
\* start with it, and exactly the two files were found
C14_FoundAmongDecoys ==
    /\ Constructed
    /\ \A d \in {1, 2} : {NameExact, NameBak, NameBuildTemp} \subseteq tree[d]
    /\ found = {<<1, NameExact>>, <<2, NameExact>>}

\* C21: a build() that returned, its compiler having exited with status 0
\* and none of its file operations having failed, leaves every discovered
\* file at its original path with its original content and no backup.
C21_CleanBuildLeavesTreePristine ==
    (Ended /\ outcome = "returned" /\ compileOutput = "exit0" /\ Benign)
        => Pristine

\* C22: at every moment of every sequence of build() calls, the original
\* content of each discovered file is at its original path or at its
\* .build-temp backup path.
C22_OriginalAlwaysKept ==
    \A p \in Discovered : fileAt[p] = "orig" \/ backupAt[p] = "orig"

====
